---------------------------- MODULE Spec2Model ----------------------------
(***************************************************************************)
(* State-machine model of src/main.py (WebScraperApp): the scrape handler  *)
(* (fetch, per-card extraction, DataFrame replacement, table refresh) and  *)
(* the visualization handler with its four aggregations.                   *)
(*                                                                         *)
(* Text is modelled as a sequence of one-character strings so that strip,  *)
(* replace and float act on it as the Python calls do.  Numbers are        *)
(* integers: float() is modelled on optionally signed decimal integer      *)
(* literals, every other text raises ValueError.                           *)
(*                                                                         *)
(* One scrape reads the clock once: all its records carry the same date.   *)
(* The pandas and numpy calls are modelled by their documented results     *)
(* (nlargest with keep='first', histogram with a closed last bin).  A      *)
(* plotting call may raise (the except branch of update_visualization);    *)
(* whether it does is left open, and the figure is then the cleared one.   *)
(***************************************************************************)
EXTENDS Integers, Sequences, FiniteSets, TLC

VARIABLES
    data,          \* self.data: None or the DataFrame of the last successful scrape
    tree,          \* self.tree: the Treeview's columns and rows
    status_var,    \* self.status_var
    analysis_var,  \* self.analysis_var
    figure,        \* self.figure: what the Figure object holds
    dialog,        \* the message box shown by the handler that ran last
    response,      \* the outcome of requests.get in the last scrape_data call
    handler        \* the handler that ran last

vars == <<data, tree, status_var, analysis_var, figure, dialog, response, handler>>

-----------------------------------------------------------------------------
(* Bounds of the model *)

MaxCards == 2

MaxTopLen == 11

MaxHistLen == 3

(* Program constants *)

TopN == 10

Bins == 20

RatingDefault == 0

-----------------------------------------------------------------------------
(* Markup: what soup.find_all / product.find see *)

NoElem == [present |-> FALSE, text |-> <<>>]

Elem(t) == [present |-> TRUE, text |-> t]

NoRatingsElem == [present |-> FALSE, has_attr |-> FALSE, attr |-> <<>>]

RatingsElem(t) == [present |-> TRUE, has_attr |-> TRUE, attr |-> t]

RatingsNoAttr == [present |-> TRUE, has_attr |-> FALSE, attr |-> <<>>]

ProductCard(t, p, r) == [title |-> t, price |-> p, ratings |-> r]

GoodA == ProductCard(Elem(<<" ", "A", " ">>), Elem(<<"$", "1", "2">>), RatingsElem(<<"4">>))

GoodB == ProductCard(Elem(<<"B">>), Elem(<<"7">>), RatingsNoAttr)

NegPrice == ProductCard(Elem(<<"C">>), Elem(<<"$", "-", "3">>), RatingsElem(<<"5">>))

NoTitle == ProductCard(NoElem, Elem(<<"$", "5">>), RatingsElem(<<"3">>))

NoPrice == ProductCard(Elem(<<"D">>), NoElem, RatingsElem(<<"3">>))

BadPrice == ProductCard(Elem(<<"E">>), Elem(<<"$", "x">>), RatingsElem(<<"3">>))

NoRatings == ProductCard(Elem(<<"F">>), Elem(<<"$", "5">>), NoRatingsElem)

BadRating == ProductCard(Elem(<<"G">>), Elem(<<"$", "5">>), RatingsElem(<<"x">>))

Cards == {GoodA, GoodB, NegPrice, NoTitle, NoPrice, BadPrice, NoRatings, BadRating}

SmallCards == {GoodA, GoodB, BadPrice}

SeqsUpTo(S, n) == UNION {[1..k -> S] : k \in 0..n}

Pages == SeqsUpTo(Cards, MaxCards)

SmallPages == SeqsUpTo(SmallCards, MaxCards)

Dates == {1, 2}

OneDate == {1}

FetchFailures == {"ConnectionError", "HTTPError"}

-----------------------------------------------------------------------------
(* Text conversions *)

RECURSIVE lstrip(_)
lstrip(t) == IF t # <<>> /\ Head(t) = " " THEN lstrip(Tail(t)) ELSE t

RECURSIVE rstrip(_)
rstrip(t) == IF t # <<>> /\ t[Len(t)] = " " THEN rstrip(SubSeq(t, 1, Len(t) - 1)) ELSE t

strip(t) == rstrip(lstrip(t))

replace(t, old) ==
    LET Keep(c) == c # old
    IN  SelectSeq(t, Keep)

DigitChars == {"0", "1", "2", "3", "4", "5", "6", "7", "8", "9"}

DigitVal(c) ==
    CASE c = "0" -> 0 [] c = "1" -> 1 [] c = "2" -> 2 [] c = "3" -> 3 [] c = "4" -> 4
      [] c = "5" -> 5 [] c = "6" -> 6 [] c = "7" -> 7 [] c = "8" -> 8 [] c = "9" -> 9

RECURSIVE DigitsValue(_)
DigitsValue(t) ==
    IF t = <<>> THEN 0
    ELSE DigitsValue(SubSeq(t, 1, Len(t) - 1)) * 10 + DigitVal(t[Len(t)])

float(t) ==
    LET s    == strip(t)
        sign == IF s # <<>> /\ Head(s) = "-" THEN -1 ELSE 1
        body == IF s # <<>> /\ Head(s) \in {"-", "+"} THEN Tail(s) ELSE s
    IN  IF body # <<>> /\ \A i \in 1..Len(body) : body[i] \in DigitChars
        THEN [ok |-> TRUE, v |-> sign * DigitsValue(body)]
        ELSE [ok |-> FALSE, v |-> 0]

-----------------------------------------------------------------------------
(* Extraction *)

Columns == <<"Name", "Price", "Rating", "Category", "Date">>

NoRow == [Name |-> <<>>, Price |-> 0, Rating |-> 0, Category |-> "Electronics", Date |-> 0]

ParseCard(product, today) ==
    LET price  == float(replace(product.price.text, "$"))
        rating == IF product.ratings.has_attr
                  THEN float(product.ratings.attr)
                  ELSE [ok |-> TRUE, v |-> RatingDefault]
    IN  IF ~product.title.present THEN [ok |-> FALSE, row |-> NoRow]
        ELSE IF ~product.price.present \/ ~price.ok THEN [ok |-> FALSE, row |-> NoRow]
        ELSE IF ~product.ratings.present \/ ~rating.ok THEN [ok |-> FALSE, row |-> NoRow]
        ELSE [ok  |-> TRUE,
              row |-> [Name     |-> strip(product.title.text),
                       Price    |-> price.v,
                       Rating   |-> rating.v,
                       Category |-> "Electronics",
                       Date     |-> today]]

(* Variant: the loop stops at the first card that fails to parse. *)
RECURSIVE ExtractRowsBreak(_, _)
ExtractRowsBreak(product_cards, today) ==
    IF product_cards = <<>> THEN <<>>
    ELSE LET parsed == ParseCard(Head(product_cards), today)
         IN  IF parsed.ok
             THEN <<parsed.row>> \o ExtractRowsBreak(Tail(product_cards), today)
             ELSE <<>>

RECURSIVE ExtractRows(_, _)
ExtractRows(product_cards, today) ==
    IF product_cards = <<>> THEN <<>>
    ELSE LET parsed == ParseCard(Head(product_cards), today)
             rest   == ExtractRows(Tail(product_cards), today)
         IN  IF parsed.ok THEN <<parsed.row>> \o rest ELSE rest

None == [is_none |-> TRUE, columns |-> <<>>, rows |-> <<>>]

DataFrame(list) ==
    [is_none |-> FALSE,
     columns |-> IF list = <<>> THEN <<>> ELSE Columns,
     rows    |-> list]

empty(df) == df.rows = <<>>

RowValues(row) == <<row.Name, row.Price, row.Rating, row.Category, row.Date>>

(* Variant: the old rows are not deleted before the new ones are inserted. *)
update_data_display_noclear(df, tr) ==
    IF df.is_none THEN tr
    ELSE [columns |-> df.columns,
          rows    |-> tr.rows \o [i \in 1..Len(df.rows) |-> RowValues(df.rows[i])]]

update_data_display(df, tr) ==
    IF df.is_none THEN tr
    ELSE [columns |-> df.columns,
          rows    |-> [i \in 1..Len(df.rows) |-> RowValues(df.rows[i])]]


-----------------------------------------------------------------------------
(* Aggregations drawn by update_visualization *)

Min(S) == CHOOSE x \in S : \A y \in S : x <= y

Max(S) == CHOOSE x \in S : \A y \in S : y <= x

RECURSIVE SumOver(_, _)
SumOver(f, S) ==
    IF S = {} THEN 0
    ELSE LET i == CHOOSE x \in S : TRUE
         IN  f[i] + SumOver(f, S \ {i})

Column(df, name) == [i \in 1..Len(df.rows) |-> df.rows[i][name]]

(* Variant: the right edge of the last bin is open, as for every other bin. *)
BinIndexNoClamp(x, lo2, hi2) == ((2 * x - lo2) * Bins) \div (hi2 - lo2)

(* numpy.histogram over bins equal-width bins of [min, max] (widened by 0.5 on
   each side when min = max); positions are kept doubled so they stay integers. *)
BinIndex(x, lo2, hi2) ==
    LET k == ((2 * x - lo2) * Bins) \div (hi2 - lo2)
    IN  IF k = Bins THEN Bins - 1 ELSE k

histogram(prices) ==
    LET values == {prices[i] : i \in 1..Len(prices)}
        lo     == Min(values)
        hi     == Max(values)
        lo2    == IF lo = hi THEN 2 * lo - 1 ELSE 2 * lo
        hi2    == IF lo = hi THEN 2 * hi + 1 ELSE 2 * hi
    IN  [b \in 1..Bins |->
            Cardinality({i \in 1..Len(prices) : BinIndex(prices[i], lo2, hi2) = b - 1})]

(* Variant: keep='last', the latest of equal ratings first. *)
RECURSIVE SelectLargestKeepLast(_, _, _)
SelectLargestKeepLast(ratings, remaining, n) ==
    IF n = 0 \/ remaining = {} THEN <<>>
    ELSE LET best == CHOOSE i \in remaining : \A j \in remaining :
                        \/ ratings[j] < ratings[i]
                        \/ ratings[j] = ratings[i] /\ i >= j
         IN  <<best>> \o SelectLargestKeepLast(ratings, remaining \ {best}, n - 1)

(* DataFrame.nlargest(n, 'Rating'), keep='first': the row positions chosen, in
   the order of the result. *)
RECURSIVE SelectLargest(_, _, _)
SelectLargest(ratings, remaining, n) ==
    IF n = 0 \/ remaining = {} THEN <<>>
    ELSE LET best == CHOOSE i \in remaining : \A j \in remaining :
                        \/ ratings[j] < ratings[i]
                        \/ ratings[j] = ratings[i] /\ i <= j
         IN  <<best>> \o SelectLargest(ratings, remaining \ {best}, n - 1)

nlargest(df, n) ==
    LET inds == SelectLargest(Column(df, "Rating"), 1..Len(df.rows), n)
    IN  [k \in 1..Len(inds) |->
            [index  |-> inds[k],
             Name   |-> df.rows[inds[k]].Name,
             Rating |-> df.rows[inds[k]].Rating]]

RECURSIVE SortAscending(_)
SortAscending(S) ==
    IF S = {} THEN <<>>
    ELSE <<Min(S)>> \o SortAscending(S \ {Min(S)})

(* groupby('Date')['Price'].mean(): one point per date, dates ascending; the
   mean is kept as the pair (sum, count). *)
groupby_mean(df) ==
    LET dates   == SortAscending({df.rows[i].Date : i \in 1..Len(df.rows)})
        prices  == Column(df, "Price")
        of(d)   == {i \in 1..Len(df.rows) : df.rows[i].Date = d}
    IN  [k \in 1..Len(dates) |->
            [Date  |-> dates[k],
             sum   |-> SumOver(prices, of(dates[k])),
             count |-> Cardinality(of(dates[k]))]]

RECURSIVE CountsDescending(_, _)
CountsDescending(df, categories) ==
    IF categories = {} THEN <<>>
    ELSE LET n(c)  == Cardinality({i \in 1..Len(df.rows) : df.rows[i].Category = c})
             first == CHOOSE c \in categories : \A o \in categories : n(o) <= n(c)
         IN  <<[Category |-> first, count |-> n(first)]>>
                 \o CountsDescending(df, categories \ {first})

value_counts(df) ==
    CountsDescending(df, {df.rows[i].Category : i \in 1..Len(df.rows)})

-----------------------------------------------------------------------------
(* Widgets *)

analysis_options ==
    {"Price Distribution", "Price Over Time", "Top Rated Products", "Category Distribution"}

EmptyTree == [columns |-> <<>>, rows |-> <<>>]

EmptyFigure == [kind |-> "empty", hist |-> <<>>, dates |-> <<>>, top |-> <<>>, cats |-> <<>>]

BlankAxes == [EmptyFigure EXCEPT !.kind = "axes"]

Plot(selected, df) ==
    CASE selected = "Price Distribution" ->
            [EmptyFigure EXCEPT !.kind = selected, !.hist = histogram(Column(df, "Price"))]
      [] selected = "Price Over Time" ->
            [EmptyFigure EXCEPT !.kind = selected, !.dates = groupby_mean(df)]
      [] selected = "Top Rated Products" ->
            [EmptyFigure EXCEPT !.kind = selected, !.top = nlargest(df, TopN)]
      [] selected = "Category Distribution" ->
            [EmptyFigure EXCEPT !.kind = selected, !.cats = value_counts(df)]

NoResponse == [status |-> "none", text |-> <<>>]

Scraped(n) == <<"Successfully scraped", n>>

-----------------------------------------------------------------------------
(* Handlers *)

Init ==
    /\ data = None
    /\ tree = EmptyTree
    /\ status_var = <<"Ready">>
    /\ analysis_var = "Select Analysis"
    /\ figure = EmptyFigure
    /\ dialog = "none"
    /\ response = NoResponse
    /\ handler = "__init__"

(* Variant: the new records are appended to the dataset held before. *)
ScrapeSucceededAppends(pages, days) ==
    \E page \in pages, today \in days :
        /\ response' = [status |-> "ok", text |-> page]
        /\ data' = DataFrame(data.rows \o ExtractRows(page, today))
        /\ tree' = update_data_display(data', tree)
        /\ status_var' = Scraped(Len(data'.rows))
        /\ dialog' = "none"

(* Variant: a scrape that extracts no record is reported as a failure. *)
ScrapeSucceededRejectsEmpty(pages, days) ==
    \E page \in pages, today \in days :
        /\ response' = [status |-> "ok", text |-> page]
        /\ IF ExtractRows(page, today) = <<>>
           THEN /\ dialog' = "Failed to scrape data"
                /\ status_var' = <<"Scraping failed">>
                /\ UNCHANGED <<data, tree>>
           ELSE /\ data' = DataFrame(ExtractRows(page, today))
                /\ tree' = update_data_display(data', tree)
                /\ status_var' = Scraped(Len(data'.rows))
                /\ dialog' = "none"

ScrapeSucceeded(pages, days) ==
    \E page \in pages, today \in days :
        /\ response' = [status |-> "ok", text |-> page]
        /\ data' = DataFrame(ExtractRows(page, today))
        /\ tree' = update_data_display(data', tree)
        /\ status_var' = Scraped(Len(data'.rows))
        /\ dialog' = "none"

(* Variant: the dataset is dropped when the fetch fails. *)
ScrapeFailedClears ==
    \E failure \in FetchFailures :
        /\ response' = [status |-> failure, text |-> <<>>]
        /\ dialog' = "Failed to scrape data"
        /\ status_var' = <<"Scraping failed">>
        /\ data' = None
        /\ UNCHANGED tree

ScrapeFailed ==
    \E failure \in FetchFailures :
        /\ response' = [status |-> failure, text |-> <<>>]
        /\ dialog' = "Failed to scrape data"
        /\ status_var' = <<"Scraping failed">>
        /\ UNCHANGED <<data, tree>>

scrape_data(pages, days) ==
    /\ handler' = "scrape_data"
    /\ UNCHANGED <<analysis_var, figure>>
    /\ \/ ScrapeSucceeded(pages, days)
       \/ ScrapeFailed

(* Variant: only an absent dataset is refused, an empty one is plotted. *)
NoDataOnlyNone(df) == df.is_none

NoData(df) == df.is_none \/ empty(df)

(* Variant: the top-rated chart sorts the dataset itself by rating. *)
update_visualization_inplace(selected) ==
    /\ handler' = "update_visualization"
    /\ UNCHANGED <<tree, status_var, response>>
    /\ IF NoData(data)
       THEN /\ dialog' = "Please scrape data first"
            /\ UNCHANGED <<figure, data>>
       ELSE IF selected \notin analysis_options
       THEN /\ dialog' = "none"
            /\ figure' = BlankAxes
            /\ UNCHANGED data
       ELSE \E raised \in BOOLEAN :
            IF raised \/ data.columns = <<>>
            THEN /\ dialog' = "Failed to create visualization"
                 /\ figure' = BlankAxes
                 /\ UNCHANGED data
            ELSE /\ dialog' = "none"
                 /\ data' = IF selected = "Top Rated Products"
                            THEN LET sorted == nlargest(data, Len(data.rows))
                                 IN  [data EXCEPT !.rows =
                                        [k \in 1..Len(sorted) |-> data.rows[sorted[k].index]]]
                            ELSE data
                 /\ figure' = Plot(selected, data')

update_visualization(selected) ==
    /\ handler' = "update_visualization"
    /\ UNCHANGED <<data, tree, status_var, response>>
    /\ IF NoData(data)
       THEN /\ dialog' = "Please scrape data first"
            /\ UNCHANGED figure
       ELSE IF selected \notin analysis_options
       THEN /\ dialog' = "none"
            /\ figure' = BlankAxes
       ELSE \E raised \in BOOLEAN :
            IF raised \/ data.columns = <<>>
            THEN /\ dialog' = "Failed to create visualization"
                 /\ figure' = BlankAxes
            ELSE /\ dialog' = "none"
                 /\ figure' = Plot(selected, data)

ComboboxSelected(selected) ==
    /\ analysis_var' = selected
    /\ update_visualization(selected)

Refresh ==
    /\ UNCHANGED analysis_var
    /\ update_visualization(analysis_var)

Next ==
    \/ scrape_data(SmallPages, OneDate)
    \/ \E selected \in analysis_options : ComboboxSelected(selected)
    \/ Refresh

Spec == Init /\ [][Next]_vars

(* The scrape handler alone, over pages with every kind of card. *)
NextScrape == scrape_data(Pages, Dates)

SpecScrape == Init /\ [][NextScrape]_vars

-----------------------------------------------------------------------------
(* The aggregations as functions of the dataset: the state a successful scrape
   of a page leaves, then the one chart drawn from it. *)

AfterScrape(page, today) ==
    /\ response = [status |-> "ok", text |-> page]
    /\ data = DataFrame(ExtractRows(page, today))
    /\ tree = update_data_display(data, EmptyTree)
    /\ status_var = Scraped(Len(data.rows))
    /\ dialog = "none"
    /\ analysis_var = "Select Analysis"
    /\ figure = EmptyFigure
    /\ handler = "scrape_data"

TopCards == {GoodA, GoodB}

InitTopRated == \E page \in SeqsUpTo(TopCards, MaxTopLen) : AfterScrape(page, 1)

NextTopRated == ComboboxSelected("Top Rated Products")

SpecTopRated == InitTopRated /\ [][NextTopRated]_vars

Pricey == ProductCard(Elem(<<"H">>), Elem(<<"$", "1", "0", "0">>), RatingsElem(<<"1">>))

HistCards == {GoodA, GoodB, NegPrice, Pricey}

InitPriceDist == \E page \in SeqsUpTo(HistCards, MaxHistLen) : AfterScrape(page, 1)

NextPriceDist == ComboboxSelected("Price Distribution")

SpecPriceDist == InitPriceDist /\ [][NextPriceDist]_vars

-----------------------------------------------------------------------------
(* Properties *)

(* What the properties read off a page: a candidate is well-formed when its
   title, price and ratings elements are there and the two numbers parse. *)
WellFormed(card) ==
    /\ card.title.present
    /\ card.price.present
    /\ float(replace(card.price.text, "$")).ok
    /\ card.ratings.present
    /\ card.ratings.has_attr => float(card.ratings.attr).ok

GoodPositions(page) == {i \in 1..Len(page) : WellFormed(page[i])}

KthGood(page, k) ==
    CHOOSE i \in GoodPositions(page) : Cardinality({j \in GoodPositions(page) : j < i}) = k - 1

RecordOf(row, card) ==
    /\ row.Name = strip(card.title.text)
    /\ row.Price = float(replace(card.price.text, "$")).v
    /\ row.Rating = IF card.ratings.has_attr THEN float(card.ratings.attr).v ELSE 0
    /\ row.Category = "Electronics"

(* C1: after a scrape whose fetch succeeded the dataset holds exactly the
   records of the page's well-formed candidates, in document order (N of N
   well-formed, K-1 when one of K is malformed), and the scrape is reported
   as a success whatever the malformed candidates were. *)
C1_WellFormedInDocumentOrder ==
    response.status = "ok" =>
        LET page == response.text
            good == GoodPositions(page)
        IN  /\ ~data.is_none
            /\ Len(data.rows) = Cardinality(good)
            /\ \A k \in 1..Len(data.rows) : RecordOf(data.rows[k], page[KthGood(page, k)])
            /\ Cardinality(good) = Len(page) => Len(data.rows) = Len(page)
            /\ Cardinality(good) = Len(page) - 1 => Len(data.rows) = Len(page) - 1
            /\ status_var = Scraped(Cardinality(good))

C1_Witness ==
    /\ handler = "scrape_data"
    /\ response.status = "ok"
    /\ response.text = <<BadPrice, GoodB>>
    /\ Len(data.rows) = 1
    /\ data.rows[1].Name = <<"B">>
    /\ status_var = Scraped(1)

(* C2: every record of the dataset has a price >= 0. *)
C2_PriceNonNegative ==
    \A i \in 1..Len(data.rows) : data.rows[i].Price >= 0

(* C3: a scrape whose fetch fails (connection failure or HTTP error status)
   leaves the dataset as it was and reports the failure as an error. *)
C3_FailedFetchKeepsDataset ==
    [][(handler' = "scrape_data" /\ response'.status \in FetchFailures) =>
            /\ data' = data
            /\ dialog' = "Failed to scrape data"
            /\ status_var' = <<"Scraping failed">>]_vars

C3_Witness ==
    /\ handler = "scrape_data"
    /\ response.status = "HTTPError"
    /\ status_var = <<"Scraping failed">>
    /\ dialog = "Failed to scrape data"
    /\ ~data.is_none
    /\ Len(data.rows) = 2

(* C4: the top-rated chart of a non-empty dataset holds min(10, |D|) records,
   by rating descending, equal ratings in document order, and no record left
   out beats or precedes-on-a-tie a record that was taken. *)
C4_TopRatedStable ==
    figure.kind = "Top Rated Products" =>
        LET top   == figure.top
            rows  == data.rows
            taken == {top[k].index : k \in 1..Len(top)}
        IN  /\ Len(top) = IF Len(rows) < TopN THEN Len(rows) ELSE TopN
            /\ taken \subseteq 1..Len(rows)
            /\ Cardinality(taken) = Len(top)
            /\ \A k \in 1..Len(top) :
                   /\ top[k].Rating = rows[top[k].index].Rating
                   /\ top[k].Name = rows[top[k].index].Name
            /\ \A k, l \in 1..Len(top) :
                   k < l => \/ top[k].Rating > top[l].Rating
                            \/ top[k].Rating = top[l].Rating /\ top[k].index < top[l].index
            /\ \A j \in (1..Len(rows)) \ taken : \A k \in 1..Len(top) :
                   \/ rows[j].Rating < top[k].Rating
                   \/ rows[j].Rating = top[k].Rating /\ top[k].index < j

C4_Witness ==
    /\ figure.kind = "Top Rated Products"
    /\ Len(data.rows) = TopN + 1
    /\ \A i \in 1..(TopN + 1) : data.rows[i].Rating = 4
    /\ Len(figure.top) = TopN
    /\ \A k \in 1..TopN : figure.top[k].index = k

(* C5: the price histogram of a non-empty dataset has 20 equal-width buckets
   over [min, max], every record in exactly one of them (the maximum in the
   last), so the counts sum to |D|; with all prices equal the |D| records are
   in one bucket. *)
C5_HistogramPartition ==
    figure.kind = "Price Distribution" =>
        LET hist   == figure.hist
            prices == [i \in 1..Len(data.rows) |-> data.rows[i].Price]
            lo     == Min({prices[i] : i \in 1..Len(prices)})
            hi     == Max({prices[i] : i \in 1..Len(prices)})
            In(i, b) ==
                \/ /\ (b - 1) * (hi - lo) <= (prices[i] - lo) * Bins
                   /\ (prices[i] - lo) * Bins < b * (hi - lo)
                \/ b = Bins /\ prices[i] = hi
        IN  /\ Len(hist) = Bins
            /\ SumOver(hist, 1..Bins) = Len(data.rows)
            /\ lo < hi =>
                   /\ \A b \in 1..Bins :
                          hist[b] = Cardinality({i \in 1..Len(prices) : In(i, b)})
                   /\ hist[Bins] >= 1
            /\ lo = hi => \E b \in 1..Bins : hist[b] = Len(data.rows)

C5_Witness ==
    /\ figure.kind = "Price Distribution"
    /\ Len(data.rows) = 3
    /\ \A i \in 1..3 : data.rows[i].Price = 7
    /\ \E b \in 1..Bins : figure.hist[b] = 3

(* C6: a scrape that fetched a page with no product card, or none that
   parses, ends as a success with a present, empty dataset: "0 products"
   in the status and no failure reported. *)
C6_EmptyScrapeIsSuccess ==
    (handler = "scrape_data" /\ response.status = "ok"
        /\ GoodPositions(response.text) = {}) =>
            /\ ~data.is_none
            /\ data.rows = <<>>
            /\ status_var = Scraped(0)
            /\ dialog = "none"

C6_Witness ==
    /\ handler = "scrape_data"
    /\ response.status = "ok"
    /\ response.text = <<NoTitle, BadRating>>
    /\ ~data.is_none
    /\ data.rows = <<>>
    /\ status_var = Scraped(0)

(* C7: a visualization request made while the dataset is absent or empty
   ends in "Please scrape data first" and leaves the figure as it was,
   whatever the selection. *)
C7_NoDataNoChart ==
    [][(handler' = "update_visualization" /\ (data.is_none \/ data.rows = <<>>)) =>
            /\ dialog' = "Please scrape data first"
            /\ figure' = figure]_vars

C7_Witness ==
    /\ handler = "update_visualization"
    /\ dialog = "Please scrape data first"
    /\ ~data.is_none
    /\ data.rows = <<>>
    /\ analysis_var = "Price Distribution"
    /\ figure.kind = "Top Rated Products"

(* C8: the dataset is absent at the start, changes only by a successful
   scrape, and after one holds only that scrape's records: as many as the
   page has well-formed candidates, each from a candidate of that page and
   dated by that scrape. *)
C8_ReplacedWholesale ==
    /\ data = None
    /\ [][data' # data => (handler' = "scrape_data" /\ response'.status = "ok")]_vars
    /\ [][(handler' = "scrape_data" /\ response'.status = "ok") =>
            /\ ~data'.is_none
            /\ Len(data'.rows) = Cardinality(GoodPositions(response'.text))
            /\ \E today \in Dates : \A k \in 1..Len(data'.rows) :
                   /\ data'.rows[k].Date = today
                   /\ \E i \in GoodPositions(response'.text) :
                          RecordOf(data'.rows[k], response'.text[i])]_vars

C8_Witness ==
    /\ handler = "scrape_data"
    /\ response.status = "ok"
    /\ figure.kind = "Top Rated Products"
    /\ Len(figure.top) = 2
    /\ Len(data.rows) = 1
    /\ \A k \in 1..2 : figure.top[k].Name # data.rows[1].Name

(* C9: no visualization request changes the dataset, whatever the selection
   and whether the chart is drawn or the drawing raises. *)
C9_VisualizationKeepsDataset ==
    [][handler' = "update_visualization" => data' = data]_vars

C9_Witness ==
    /\ handler = "update_visualization"
    /\ dialog = "none"
    /\ figure.kind = "Top Rated Products"
    /\ Len(data.rows) = 2
    /\ data.rows[1].Rating < data.rows[2].Rating
    /\ figure.top[1].index = 2

(* C10: the table's rows are always the dataset's records, in order (none
   while the dataset is absent), and a scrape that ends in "Scraping failed"
   changes neither the dataset nor the table. *)
C10_TableShowsDataset ==
    /\ [](/\ Len(tree.rows) = Len(data.rows)
          /\ \A i \in 1..Len(data.rows) :
                tree.rows[i] = <<data.rows[i].Name, data.rows[i].Price, data.rows[i].Rating,
                                 data.rows[i].Category, data.rows[i].Date>>)
    /\ [][(handler' = "scrape_data" /\ status_var' = <<"Scraping failed">>) =>
            (data' = data /\ tree' = tree)]_vars

C10_Witness ==
    /\ handler = "scrape_data"
    /\ response.status = "ok"
    /\ figure.kind = "Category Distribution"
    /\ figure.cats[1].count = 2
    /\ Len(data.rows) = 1
    /\ Len(tree.rows) = 1
    /\ tree.rows[1][1] = <<"B">>

=============================================================================
